---- MODULE Spec2Model ----
(***************************************************************************)
(* Brand Reputation Monitor (src/app.py): a Streamlit script that is run   *)
(* top to bottom on every user interaction.  The state is the input file,  *)
(* the two Streamlit caches, the widget values, the script's globals and   *)
(* the elements the current run has put on the screen.                     *)
(***************************************************************************)
EXTENDS Integers, Sequences, FiniteSets, TLC

VARIABLES
    file,                 \* contents of scraped_data.json, or NoFile
    data_cache,           \* st.cache_data entry of load_data, or NoEntry
    resource_cache,       \* st.cache_resource entry of load_sentiment_model, or NoModel
    page,                 \* value of the sidebar radio
    selected_month_name,  \* value of the month slider
    pc,                   \* position of the current script run
    df,                   \* the global master dataframe of the current run
    filtered_reviews,     \* the filtered copy of the Reviews page
    texts,                \* argument of the classifier call of this run
    results,              \* what the classifier returned in this run
    screen,               \* elements rendered by the current run, in order
    log                   \* external calls made by the current run, in order

vars == <<file, data_cache, resource_cache, page, selected_month_name, pc, df,
          filtered_reviews, texts, results, screen, log>>

----------------------------------------------------------------------------
(* Bound of the input documents: the number of products, testimonials and   *)
(* review edges of a document, together.                                    *)
MaxRecords == 3

----------------------------------------------------------------------------
(* Values.                                                                 *)
None == "<None>"                  \* null of a text column
NaN == 0 - 1                      \* null of a numeric column
NullDate == <<>>                  \* null of the date column before parsing
NaT == [year |-> 0, month |-> 0, day |-> 0]

NoFile == [missing |-> TRUE]
NoEntry == [missing |-> TRUE]
NoModel == [missing |-> TRUE]
NoTable == [undefined |-> TRUE]

NumericCols == {"price", "rating", "score_val"}

Null(c) == IF c = "date" THEN NullDate ELSE IF c \in NumericCols THEN NaN ELSE None

IsNa(v, c) == v = (IF c = "date" THEN NaT ELSE Null(c))

Range(s) == {s[i] : i \in DOMAIN s}

----------------------------------------------------------------------------
(* Input documents.  A JSON object is a function from its keys; a date     *)
(* string "YYYY-MM-DD" is the tuple of its eight digits.                   *)
D_2023_05_14 == <<2, 0, 2, 3, 0, 5, 1, 4>>
D_2023_05_20 == <<2, 0, 2, 3, 0, 5, 2, 0>>
D_2022_05_14 == <<2, 0, 2, 2, 0, 5, 1, 4>>
D_2023_06_02 == <<2, 0, 2, 3, 0, 6, 0, 2>>
D_2023_13_01 == <<2, 0, 2, 3, 1, 3, 0, 1>>

Product(name) ==
    ("name" :> name) @@ ("price" :> 12) @@ ("short-description" :> "Blue mug")

ProductRecords ==
    { Product("Mug"),
      Product("Dated mug") @@ ("date" :> D_2023_05_14) }

TestimonialRecords ==
    { ("text" :> "Love it") @@ ("rating" :> 5),
      ("text" :> None) @@ ("rating" :> 4),
      ("text" :> "Fine") @@ ("rating" :> NaN) }

Review(date, text, rating) ==
    ("date" :> date) @@ ("text" :> text) @@ ("rating" :> rating)

ReviewTexts == {"great", "awful"}

ReviewNodes ==
    { Review(D_2023_05_14, "great", 5),
      Review(D_2023_05_20, "awful", 1),
      Review(D_2022_05_14, "great", 4),
      Review(D_2023_06_02, "awful", 2),
      Review(D_2023_13_01, "great", 3),
      ("date" :> D_2023_05_14) @@ ("rating" :> 3),
      Review(D_2023_05_14, "great", 5)
          @@ ("sentiment" :> "NEGATIVE") @@ ("score_val" :> 600000) }

\* an edge is a JSON object (with or without the key "node") or another
\* JSON value (null, a number, a string, a list)
Edges ==
    { [kind |-> "object", val |-> ("node" :> n)] : n \in ReviewNodes }
    \cup { [kind |-> "object", val |-> ("cursor" :> "c1")],
           [kind |-> "other", val |-> <<>>] }

\* raw_data["reviews"]: the path reviews.data.reviews.edges is intact, or
\* its at-th key is absent, or the value its at-th key is looked up in is
\* not an object
ReviewsValues(n) ==
    { [path |-> "ok", at |-> 0, edges |-> e] : e \in [1..n -> Edges] }
    \cup (IF n = 0
          THEN { [path |-> p, at |-> k, edges |-> <<>>] :
                   p \in {"absent", "wrong_shape"}, k \in 1..4 }
          ELSE {})

Sizes ==
    { s \in (0..MaxRecords) \X (0..MaxRecords) \X (0..MaxRecords) :
        s[1] + s[2] + s[3] <= MaxRecords }

Documents ==
    UNION { [ products : [1..s[1] -> ProductRecords],
              testimonials : [1..s[2] -> TestimonialRecords],
              reviews : ReviewsValues(s[3]) ] : s \in Sizes }

----------------------------------------------------------------------------
(* pandas.                                                                 *)
DataFrame(data) ==
    LET columns == UNION {DOMAIN data[i] : i \in DOMAIN data}
    IN  [ columns |-> columns,
          index |-> [i \in DOMAIN data |-> i - 1],
          rows |-> [i \in DOMAIN data |->
                      [c \in columns |->
                          IF c \in DOMAIN data[i] THEN data[i][c] ELSE Null(c)]] ]

\* frame[col] = value, value a scalar
SetItem(frame, col, value) ==
    [ columns |-> frame.columns \cup {col},
      index |-> frame.index,
      rows |-> [i \in DOMAIN frame.rows |->
                  [c \in frame.columns \cup {col} |->
                      IF c = col THEN value ELSE frame.rows[i][c]]] ]

\* frame[col] = values, values a list as long as the frame
SetItemList(frame, col, values) ==
    [ columns |-> frame.columns \cup {col},
      index |-> frame.index,
      rows |-> [i \in DOMAIN frame.rows |->
                  [c \in frame.columns \cup {col} |->
                      IF c = col THEN values[i] ELSE frame.rows[i][c]]] ]

Reindex(frame, columns) ==
    [i \in DOMAIN frame.rows |->
        [c \in columns |->
            IF c \in frame.columns THEN frame.rows[i][c] ELSE Null(c)]]

\* concat with the first two frames in the wrong order
concatMisordered(a, b, c) ==
    LET columns == a.columns \cup b.columns \cup c.columns
        rows == Reindex(b, columns) \o Reindex(a, columns) \o Reindex(c, columns)
    IN  [ columns |-> columns,
          index |-> [i \in DOMAIN rows |-> i - 1],
          rows |-> rows ]

\* pd.concat([a, b, c], axis=0, ignore_index=True, sort=False)
concat(a, b, c) ==
    LET columns == a.columns \cup b.columns \cup c.columns
        rows == Reindex(a, columns) \o Reindex(b, columns) \o Reindex(c, columns)
    IN  [ columns |-> columns,
          index |-> [i \in DOMAIN rows |-> i - 1],
          rows |-> rows ]

\* frame[mask], mask a list of booleans as long as the frame: the rows whose
\* mask is true, with their index labels
Keep(frame, mask) ==
    LET RECURSIVE pick(_)
        pick(i) == IF i > Len(frame.rows) THEN <<>>
                   ELSE (IF mask[i] THEN <<i>> ELSE <<>>) \o pick(i + 1)
        kept == pick(1)
    IN  [ columns |-> frame.columns,
          index |-> [k \in DOMAIN kept |-> frame.index[kept[k]]],
          rows |-> [k \in DOMAIN kept |-> frame.rows[kept[k]]] ]

\* frame[cols]
Project(frame, cols) ==
    [ columns |-> cols,
      index |-> frame.index,
      rows |-> [i \in DOMAIN frame.rows |-> [c \in cols |-> frame.rows[i][c]]] ]

Year(s) == s[1] * 1000 + s[2] * 100 + s[3] * 10 + s[4]
Month(s) == s[5] * 10 + s[6]
Day(s) == s[7] * 10 + s[8]

DaysIn(y, m) ==
    IF m \in {4, 6, 9, 11} THEN 30
    ELSE IF m = 2 THEN (IF (y % 4 = 0 /\ y % 100 # 0) \/ y % 400 = 0 THEN 29 ELSE 28)
    ELSE 31

Parses(s) ==
    \/ s = NullDate
    \/ /\ Len(s) = 8
       /\ Month(s) \in 1..12
       /\ Day(s) \in 1..DaysIn(Year(s), Month(s))

\* pd.to_datetime of one cell
to_datetime(s) ==
    IF s = NullDate THEN NaT
    ELSE [year |-> Year(s), month |-> Month(s), day |-> Day(s)]

----------------------------------------------------------------------------
(* Screen elements.                                                        *)
Element(kind, body) == [kind |-> kind, body |-> body]

Shows(kind) == \E i \in DOMAIN screen : screen[i].kind = kind

PathError == Element("error", "Could not find the 'reviews' path in your JSON file.")

FileError ==
    Element("error", "File 'scraped_data.json' not found. Please ensure it is in the same folder.")

Exception(name) == Element("exception", name)

Sidebar ==
    << Element("sidebar.title", "Brand Monitor 2023"),
       Element("sidebar.radio", <<"Products", "Testimonials", "Reviews">>) >>

----------------------------------------------------------------------------
(* load_data.                                                              *)
Raise(name, elements) == [raised |-> name, value |-> NoTable, elements |-> elements]

Return(value, elements) == [raised |-> "", value |-> value, elements |-> elements]

\* the loop of lines 28-29: the nodes appended before an edge raises stay
\* in reviews_list
RECURSIVE AppendNodes(_, _)
AppendNodes(edges, reviews_list) ==
    IF Len(edges) = 0 THEN [raised |-> "", reviews_list |-> reviews_list]
    ELSE LET edge == Head(edges)
         IN  IF edge.kind # "object"
             THEN [raised |-> "TypeError", reviews_list |-> reviews_list]
             ELSE IF "node" \notin DOMAIN edge.val
             THEN [raised |-> "KeyError", reviews_list |-> reviews_list]
             ELSE AppendNodes(Tail(edges), Append(reviews_list, edge.val["node"]))

\* lines 25-29: the lookup of the nested path, then the loop
UnpackReviews(reviews) ==
    IF reviews.path = "absent" THEN [raised |-> "KeyError", reviews_list |-> <<>>]
    ELSE IF reviews.path = "wrong_shape"
    THEN [raised |-> "TypeError", reviews_list |-> <<>>]
    ELSE AppendNodes(reviews.edges, <<>>)

\* line 40: df_final['date'] = pd.to_datetime(df_final['date'])
ConvertDates(df_final) ==
    SetItemList(df_final, "date",
                [i \in DOMAIN df_final.rows |-> to_datetime(df_final.rows[i]["date"])])

load_data(f) ==
    IF f = NoFile THEN Raise("FileNotFoundError", <<>>)
    ELSE
    LET raw_data == f
        df_prod == SetItem(DataFrame(raw_data.products), "type", "product")
        df_test == SetItem(DataFrame(raw_data.testimonials), "type", "testimonial")
        unpacked == UnpackReviews(raw_data.reviews)
        elements == IF unpacked.raised = "KeyError" THEN <<PathError>> ELSE <<>>
        df_rev == SetItem(DataFrame(unpacked.reviews_list), "type", "review")
        df_final == concat(df_prod, df_test, df_rev)
    IN  IF unpacked.raised = "TypeError" THEN Raise("TypeError", <<>>)
        ELSE IF "date" \notin df_final.columns THEN Raise("KeyError", elements)
        ELSE IF \E i \in DOMAIN df_final.rows : ~Parses(df_final.rows[i]["date"])
        THEN Raise("ValueError", elements)
        ELSE Return(ConvertDates(df_final), elements)

----------------------------------------------------------------------------
(* The classifier.                                                         *)
Labels == {"POSITIVE", "NEGATIVE"}

Prediction(label, score) == [label |-> label, score |-> score]

\* what pipeline("sentiment-analysis", model=...) may return: a function from
\* a text to a label and a score (in millionths)
SentimentModels ==
    { ("great" :> Prediction("POSITIVE", 999849))
          @@ ("awful" :> Prediction("NEGATIVE", 956700)),
      ("great" :> Prediction("NEGATIVE", 567851))
          @@ ("awful" :> Prediction("POSITIVE", 999849)) }

\* f"{score:.2%}"
Percent(score) ==
    LET hundredths == (score + 50) \div 100
        frac == hundredths % 100
    IN  ToString(hundredths \div 100) \o "."
            \o (IF frac < 10 THEN "0" ELSE "") \o ToString(frac) \o "%"

----------------------------------------------------------------------------
(* The script.                                                             *)
months == <<"Jan", "Feb", "Mar", "Apr", "May", "Jun",
            "Jul", "Aug", "Sep", "Oct", "Nov", "Dec">>

Pages == {"Products", "Testimonials", "Reviews"}

DefaultPage == "Products"

DefaultMonth == "May"

Finished == {"done", "stopped", "crashed"}

Init ==
    /\ file \in {NoFile} \cup Documents
    /\ data_cache = NoEntry
    /\ resource_cache = NoModel
    /\ page = DefaultPage
    /\ selected_month_name = DefaultMonth
    /\ pc = "start"
    /\ df = NoTable
    /\ filtered_reviews = NoTable
    /\ texts = <<>>
    /\ results = <<>>
    /\ screen = <<>>
    /\ log = <<>>

\* a new script run starts with nothing on the screen and no globals
StartRun ==
    /\ pc' = "start"
    /\ df' = NoTable
    /\ filtered_reviews' = NoTable
    /\ texts' = <<>>
    /\ results' = <<>>
    /\ screen' = <<>>
    /\ log' = <<>>
    /\ UNCHANGED <<file, data_cache, resource_cache>>

\* the user reruns the script with the widgets as they are
Rerun ==
    /\ pc \in Finished
    /\ StartRun
    /\ UNCHANGED <<page, selected_month_name>>

\* the user picks another page on the sidebar radio
Navigate(p) ==
    /\ pc \in Finished
    /\ Shows("sidebar.radio")
    /\ p # page
    /\ page' = p
    /\ StartRun
    /\ UNCHANGED selected_month_name

\* the user moves the month slider
SelectMonth(m) ==
    /\ pc \in Finished
    /\ Shows("select_slider")
    /\ m # selected_month_name
    /\ selected_month_name' = m
    /\ StartRun
    /\ UNCHANGED page

\* a handler that catches nothing
CaughtNothing(raised) == FALSE

\* lines 45-49: the only exception the script catches around load_data()
CaughtAtTopLevel(raised) == raised = "FileNotFoundError"

\* lines 44-53: df = load_data() through the cache, then the sidebar
LoadGlobal ==
    /\ pc = "start"
    /\ IF data_cache # NoEntry
       THEN /\ df' = data_cache.value
            /\ screen' = data_cache.elements \o Sidebar
            /\ pc' = "route"
            /\ log' = Append(log, "load_data")
            /\ UNCHANGED <<data_cache, page, selected_month_name>>
       ELSE LET called == load_data(file)
            IN  /\ log' = log \o <<"load_data", "open">>
                /\ IF called.raised = ""
                   THEN /\ data_cache' = [value |-> called.value,
                                          elements |-> called.elements]
                        /\ df' = called.value
                        /\ screen' = called.elements \o Sidebar
                        /\ pc' = "route"
                        /\ UNCHANGED <<page, selected_month_name>>
                   ELSE /\ IF CaughtAtTopLevel(called.raised)
                           THEN /\ screen' = <<FileError>>
                                /\ pc' = "stopped"
                           ELSE /\ screen' = called.elements
                                              \o <<Exception(called.raised)>>
                                /\ pc' = "crashed"
                        \* widgets that a run does not render lose their value
                        /\ page' = DefaultPage
                        /\ selected_month_name' = DefaultMonth
                        /\ UNCHANGED <<data_cache, df>>
    /\ UNCHANGED <<file, resource_cache, filtered_reviews, texts, results>>

\* lines 56-61
ProductsPage ==
    /\ pc = "route"
    /\ page = "Products"
    /\ LET products_df == Keep(df, [i \in DOMAIN df.rows |-> df.rows[i]["type"] = "product"])
           display_cols == {"name", "price", "short-description"}
           header == Element("header", "Product Catalog")
       IN  IF display_cols \subseteq products_df.columns
           THEN /\ screen' = screen \o
                       <<header, Element("dataframe", Project(products_df, display_cols))>>
                /\ pc' = "done"
           ELSE /\ screen' = screen \o <<header, Exception("KeyError")>>
                /\ pc' = "crashed"
    /\ selected_month_name' = DefaultMonth
    /\ UNCHANGED <<file, data_cache, resource_cache, page, df, filtered_reviews,
                   texts, results, log>>

\* dropna() without the subset: a null in any column drops the row
dropnaAny(frame, col) ==
    Keep(frame, [i \in DOMAIN frame.rows |->
                    \A c \in frame.columns : ~IsNa(frame.rows[i][c], c)])

\* frame.dropna(subset=[col])
dropna(frame, col) ==
    Keep(frame, [i \in DOMAIN frame.rows |-> ~IsNa(frame.rows[i][col], col)])

\* lines 63-67
TestimonialsPage ==
    /\ pc = "route"
    /\ page = "Testimonials"
    /\ LET testimonials_df == Keep(df, [i \in DOMAIN df.rows |-> df.rows[i]["type"] = "testimonial"])
           header == Element("header", "Customer Testimonials")
       IN  IF {"text", "rating"} \subseteq testimonials_df.columns
           THEN /\ screen' = screen \o
                       <<header,
                         Element("dataframe",
                                 dropna(Project(testimonials_df, {"text", "rating"}), "text"))>>
                /\ pc' = "done"
           ELSE /\ screen' = screen \o <<header, Exception("KeyError")>>
                /\ pc' = "crashed"
    /\ selected_month_name' = DefaultMonth
    /\ UNCHANGED <<file, data_cache, resource_cache, page, df, filtered_reviews,
                   texts, results, log>>

\* the list index without the + 1
MonthIndex(name) == (CHOOSE i \in DOMAIN months : months[i] = name) - 1

\* line 86: months.index(selected_month_name) + 1, the list index counted from 0
MonthNum(name) == (CHOOSE i \in DOMAIN months : months[i] = name) - 1 + 1

\* lines 89-93
FilterReviews(frame, month_num) ==
    Keep(frame, [i \in DOMAIN frame.rows |->
                    /\ frame.rows[i]["type"] = "review"
                    /\ frame.rows[i]["date"].month = month_num
                    /\ frame.rows[i]["date"].year = 2023])

\* an emptiness test that never holds
neverEmpty(frame) == FALSE

\* line 95: frame.empty
empty(frame) == Len(frame.rows) = 0

\* lines 70-101
ReviewsPage ==
    /\ pc = "route"
    /\ page = "Reviews"
    /\ LET month_num == MonthNum(selected_month_name)
           filtered == FilterReviews(df, month_num)
           head == << Element("header", "2023 Review Sentiment Analysis"),
                      Element("select_slider", months) >>
       IN  /\ filtered_reviews' = filtered
           /\ log' = Append(log, "filter")
           /\ IF empty(filtered)
              THEN /\ screen' = screen \o head \o
                          <<Element("warning", <<"No reviews found for",
                                                 selected_month_name, 2023>>)>>
                   /\ pc' = "done"
              ELSE IF {"date", "text", "rating"} \subseteq filtered.columns
              THEN /\ screen' = screen \o head \o
                          << Element("write", <<"Found", Len(filtered.rows),
                                                "reviews for", selected_month_name>>),
                             Element("dataframe",
                                     Project(filtered, {"date", "text", "rating"})) >>
                   /\ pc' = "model"
              ELSE /\ screen' = screen \o head \o
                          << Element("write", <<"Found", Len(filtered.rows),
                                                "reviews for", selected_month_name>>),
                             Exception("KeyError") >>
                   /\ pc' = "crashed"
    /\ UNCHANGED <<file, data_cache, resource_cache, page, selected_month_name, df,
                   texts, results>>

\* lines 106-115: the model is built on the first call and cached
LoadSentimentModel ==
    /\ pc = "model"
    /\ screen' = screen \o << Element("divider", ""),
                              Element("subheader", "Sentiment Analysis Results") >>
    /\ IF resource_cache = NoModel
       THEN /\ resource_cache' \in SentimentModels
            /\ log' = log \o <<"load_sentiment_model", "pipeline">>
       ELSE /\ log' = Append(log, "load_sentiment_model")
            /\ UNCHANGED resource_cache
    /\ pc' = "analyze"
    /\ UNCHANGED <<file, data_cache, page, selected_month_name, df, filtered_reviews,
                   texts, results>>

\* column col of a frame as a list
tolist(frame, col) == [i \in DOMAIN frame.rows |-> frame.rows[i][col]]

\* sentiment_pipeline(texts): one prediction per text, in order
Classify(sentiment_pipeline, inputs) ==
    [i \in DOMAIN inputs |-> sentiment_pipeline[inputs[i]]]

\* lines 129-131
color_sentiment(val) == IF val = "POSITIVE" THEN "#90ee90" ELSE "#ffcccb"

\* the i-th row gets the prediction of the i-th text from the end
AttachReversed(frame, res) ==
    LET rev(i) == res[Len(res) + 1 - i]
    IN  SetItemList(
            SetItemList(
                SetItemList(frame, "sentiment", [i \in DOMAIN res |-> rev(i).label]),
                "score_val", [i \in DOMAIN res |-> rev(i).score]),
            "confidence", [i \in DOMAIN res |-> Percent(rev(i).score)])

\* label and score are kept when the frame already has the two columns
AttachUnlessPresent(frame, res) ==
    IF {"sentiment", "score_val"} \subseteq frame.columns
    THEN SetItemList(frame, "confidence", [i \in DOMAIN res |-> Percent(res[i].score)])
    ELSE SetItemList(
             SetItemList(
                 SetItemList(frame, "sentiment", [i \in DOMAIN res |-> res[i].label]),
                 "score_val", [i \in DOMAIN res |-> res[i].score]),
             "confidence", [i \in DOMAIN res |-> Percent(res[i].score)])

\* lines 125-127
AttachSentiment(frame, res) ==
    SetItemList(
        SetItemList(
            SetItemList(frame, "sentiment", [i \in DOMAIN res |-> res[i].label]),
            "score_val", [i \in DOMAIN res |-> res[i].score]),
        "confidence", [i \in DOMAIN res |-> Percent(res[i].score)])

\* the columns written through to the rows of the master frame that have
\* the index labels of the analysed rows
WriteThrough(master, analysed) ==
    LET columns == master.columns \cup analysed.columns
        at(label) == CHOOSE k \in DOMAIN analysed.index : analysed.index[k] = label
    IN  [ columns |-> columns,
          index |-> master.index,
          rows |-> [i \in DOMAIN master.rows |->
                      IF \E k \in DOMAIN analysed.index :
                             analysed.index[k] = master.index[i]
                      THEN analysed.rows[at(master.index[i])]
                      ELSE [c \in columns |->
                               IF c \in master.columns THEN master.rows[i][c]
                               ELSE Null(c)]] ]

\* the assignment of lines 125-127 on a view of df instead of a copy
StoreSentimentInView(res) ==
    /\ filtered_reviews' = AttachSentiment(filtered_reviews, res)
    /\ df' = WriteThrough(df, AttachSentiment(filtered_reviews, res))

\* lines 125-127: the columns are set on filtered_reviews, which line 93
\* made a copy of the selected rows; df is not written
StoreSentiment(res) ==
    /\ filtered_reviews' = AttachSentiment(filtered_reviews, res)
    /\ df' = df

\* lines 117-136
AnalyzeSentiment ==
    /\ pc = "analyze"
    /\ LET sentiment_pipeline == resource_cache
           inputs == tolist(filtered_reviews, "text")
       IN  /\ texts' = inputs
           /\ log' = Append(log, "sentiment_pipeline")
           /\ IF \E i \in DOMAIN inputs : IsNa(inputs[i], "text")
              THEN \* the tokenizer rejects an input that is not a string
                   /\ screen' = Append(screen, Exception("ValueError"))
                   /\ pc' = "crashed"
                   /\ UNCHANGED <<results, filtered_reviews, df>>
              ELSE LET res == Classify(sentiment_pipeline, inputs)
                       analysed == AttachSentiment(filtered_reviews, res)
                       shown == Project(analysed,
                                        {"date", "text", "sentiment", "confidence"})
                   IN  /\ results' = res
                       /\ StoreSentiment(res)
                       /\ screen' = Append(screen,
                              Element("styled_dataframe",
                                      [data |-> shown,
                                       background |->
                                           [i \in DOMAIN shown.rows |->
                                               color_sentiment(shown.rows[i]["sentiment"])]]))
                       /\ pc' = "metrics"
    /\ UNCHANGED <<file, data_cache, resource_cache, page, selected_month_name>>

\* (frame[col] != value).sum()
CountNe(frame, col, value) ==
    Cardinality({i \in DOMAIN frame.rows : frame.rows[i][col] # value})

\* (frame[col] == value).sum()
CountEq(frame, col, value) ==
    Cardinality({i \in DOMAIN frame.rows : frame.rows[i][col] = value})

RECURSIVE Sum(_)
Sum(s) == IF Len(s) = 0 THEN 0 ELSE Head(s) + Sum(Tail(s))

\* line 152-153: one row per label that occurs, labels in sorted order, with
\* the number of non-null scores and their mean (as sum over count)
GroupBySentiment(frame) ==
    LET group(label) ==
            Keep(frame, [i \in DOMAIN frame.rows |-> frame.rows[i]["sentiment"] = label])
        scores(label) == tolist(dropna(group(label), "score_val"), "score_val")
        line(label) ==
            IF Len(group(label).rows) = 0 THEN <<>>
            ELSE << [Sentiment |-> label,
                     Count |-> Len(scores(label)),
                     AverageConfidence |-> [sum |-> Sum(scores(label)),
                                            count |-> Len(scores(label))]] >>
    IN  line("NEGATIVE") \o line("POSITIVE")

\* lines 138-167
MetricsAndChart ==
    /\ pc = "metrics"
    /\ LET pos_count == CountEq(filtered_reviews, "sentiment", "POSITIVE")
           neg_count == CountEq(filtered_reviews, "sentiment", "NEGATIVE")
           chart_df == GroupBySentiment(filtered_reviews)
       IN  screen' = screen \o
               << Element("metric", <<"Positive Reviews", pos_count>>),
                  Element("metric", <<"Negative Reviews", neg_count>>),
                  Element("divider", ""),
                  Element("subheader", <<"Sentiment Distribution:", selected_month_name>>),
                  Element("altair_chart", chart_df) >>
    /\ pc' = "done"
    /\ UNCHANGED <<file, data_cache, resource_cache, page, selected_month_name, df,
                   filtered_reviews, texts, results, log>>

Next ==
    \/ Rerun
    \/ \E p \in Pages : Navigate(p)
    \/ \E m \in Range(months) : SelectMonth(m)
    \/ LoadGlobal
    \/ ProductsPage
    \/ TestimonialsPage
    \/ ReviewsPage
    \/ LoadSentimentModel
    \/ AnalyzeSentiment
    \/ MetricsAndChart

Spec == Init /\ [][Next]_vars

----------------------------------------------------------------------------
(* Properties.                                                             *)

Calls(name) == Cardinality({i \in DOMAIN log : log[i] = name})

\* the row of the master frame with an index label
MasterRow(label) == df.rows[CHOOSE i \in DOMAIN df.index : df.index[i] = label]

Increasing(s) == \A i, j \in DOMAIN s : i < j => s[i] < s[j]

IntactPath(d) ==
    /\ d.reviews.path = "ok"
    /\ \A i \in DOMAIN d.reviews.edges :
          /\ d.reviews.edges[i].kind = "object"
          /\ "node" \in DOMAIN d.reviews.edges[i].val

ValidDocument(d) == d # NoFile /\ IntactPath(d)

SourceRecords(d) ==
    d.products \o d.testimonials
        \o [i \in DOMAIN d.reviews.edges |-> d.reviews.edges[i].val["node"]]

SourceType(d, i) ==
    IF i <= Len(d.products) THEN "product"
    ELSE IF i <= Len(d.products) + Len(d.testimonials) THEN "testimonial"
    ELSE "review"

RowsOfType(frame, t) ==
    Cardinality({i \in DOMAIN frame.rows : frame.rows[i]["type"] = t})

C2_MonthFilter ==
    filtered_reviews # NoTable =>
        \E M \in 1..12 :
            /\ months[M] = selected_month_name
            /\ LET match == {i \in DOMAIN df.rows :
                               /\ df.rows[i]["type"] = "review"
                               /\ df.rows[i]["date"].month = M
                               /\ df.rows[i]["date"].year = 2023}
               IN  /\ Len(filtered_reviews.rows) = Cardinality(match)
                   /\ Range(filtered_reviews.index) = {df.index[i] : i \in match}
                   /\ Increasing(filtered_reviews.index)
                   /\ \A k \in DOMAIN filtered_reviews.rows :
                         \A c \in df.columns \ {"sentiment", "score_val"} :
                             filtered_reviews.rows[k][c]
                                 = MasterRow(filtered_reviews.index[k])[c]
                   /\ match = {} =>
                         /\ pc = "done"
                         /\ Shows("warning")
                         /\ ~Shows("exception")

C2_Witness ==
    /\ filtered_reviews # NoTable
    /\ pc = "model"
    /\ selected_month_name = "Jun"
    /\ Len(filtered_reviews.rows) >= 1
    /\ RowsOfType(df, "review") > Len(filtered_reviews.rows)

Rendered(kind) == screen[CHOOSE i \in DOMAIN screen : screen[i].kind = kind].body

MetricShown(name) ==
    screen[CHOOSE i \in DOMAIN screen :
               screen[i].kind = "metric" /\ screen[i].body[1] = name].body[2]

\* C3: when the Reviews page has rendered the counters and the chart, the
\* positive and the negative counter add up to the number of filtered rows,
\* the chart table has at most two rows, one per label that occurs, and each
\* row's count is the counter of its label, so the counts add up to the same
\* number.
C3_CountsSum ==
    Shows("altair_chart") =>
        LET pos == MetricShown("Positive Reviews")
            neg == MetricShown("Negative Reviews")
            chart == Rendered("altair_chart")
            n == Len(filtered_reviews.rows)
        IN  /\ pos + neg = n
            /\ Len(chart) <= 2
            /\ Sum([i \in DOMAIN chart |-> chart[i].Count]) = n
            /\ \A i \in DOMAIN chart :
                  chart[i].Count = (IF chart[i].Sentiment = "POSITIVE" THEN pos
                                    ELSE IF chart[i].Sentiment = "NEGATIVE" THEN neg
                                    ELSE 0 - 1)
            /\ \A i, j \in DOMAIN chart :
                  chart[i].Sentiment = chart[j].Sentiment => i = j

C3_Witness ==
    /\ Shows("altair_chart")
    /\ Len(Rendered("altair_chart")) = 2
    /\ MetricShown("Positive Reviews") = 2
    /\ MetricShown("Negative Reviews") = 1

\* C4: with the input file missing, a run shows the file error and stops
\* there: nothing but the error is on the screen, no exception is raised,
\* the master frame is never bound, and no page, filter, model load or
\* classifier call happens.
C4_MissingFileHalts ==
    file = NoFile =>
        IF pc = "start" THEN screen = <<>> /\ log = <<>>
        ELSE /\ pc = "stopped"
             /\ screen = <<FileError>>
             /\ log = <<"load_data", "open">>
             /\ df = NoTable
             /\ filtered_reviews = NoTable
             /\ texts = <<>>
             /\ results = <<>>
             /\ resource_cache = NoModel

C4_Witness == file = NoFile /\ pc = "stopped" /\ Shows("error")

MalformedPath(d) == d # NoFile /\ ~IntactPath(d)

\* C5: with a malformed review path (a key absent, a value of the wrong
\* shape, or an edge without node) load_data reports the problem and returns
\* a table with no review row and with every product and testimonial; no
\* exception is raised by the load.
C5_MalformedPathDegrades ==
    (MalformedPath(file) /\ pc # "start") =>
        /\ df # NoTable
        /\ Shows("error")
        /\ RowsOfType(df, "review") = 0
        /\ RowsOfType(df, "product") = Len(file.products)
        /\ RowsOfType(df, "testimonial") = Len(file.testimonials)

\* C6: once load_data has returned, the cached master table never changes,
\* and in every run the master frame df, once bound, is that table: no page
\* and no sentiment step adds, drops or rewrites a row or a column of it.
C6_MasterReadOnly ==
    [][ /\ data_cache # NoEntry => data_cache' = data_cache
        /\ df' # NoTable => (data_cache' # NoEntry /\ df' = data_cache'.value) ]_vars

C6_Witness ==
    /\ pc = "done"
    /\ filtered_reviews # NoTable
    /\ "confidence" \in filtered_reviews.columns
    /\ "confidence" \notin df.columns
    /\ df = data_cache.value
    /\ Len(df.rows) > Len(filtered_reviews.rows)

PreAnalyzed ==
    /\ filtered_reviews # NoTable
    /\ Len(filtered_reviews.rows) > 0
    /\ {"sentiment", "score_val"} \subseteq df.columns

C8_Testimonials ==
    (page = "Testimonials" /\ pc = "done") =>
        LET shown == Rendered("dataframe")
            wanted == {i \in DOMAIN df.rows :
                          /\ df.rows[i]["type"] = "testimonial"
                          /\ df.rows[i]["text"] # None}
        IN  /\ shown.columns = {"text", "rating"}
            /\ Len(shown.rows) = Cardinality(wanted)
            /\ Range(shown.index) = {df.index[i] : i \in wanted}
            /\ Increasing(shown.index)
            /\ \A k \in DOMAIN shown.rows :
                  /\ shown.rows[k]["text"] = MasterRow(shown.index[k])["text"]
                  /\ shown.rows[k]["rating"] = MasterRow(shown.index[k])["rating"]

C8_Witness ==
    /\ page = "Testimonials"
    /\ pc = "done"
    /\ \E k \in DOMAIN Rendered("dataframe").rows :
          Rendered("dataframe").rows[k]["rating"] = NaN
    /\ \E i \in DOMAIN df.rows :
          df.rows[i]["type"] = "testimonial" /\ df.rows[i]["text"] = None

\* C9: a Reviews run that has analysed a non-empty filter result has called
\* the classifier once, on the texts of the filtered rows in table order,
\* and the k-th row carries the label, the score and the formatted
\* confidence of the k-th prediction, which is the prediction for the row's
\* own text.
C9_RowwiseSentiment ==
    (pc \in {"metrics", "done"} /\ filtered_reviews # NoTable
        /\ Len(filtered_reviews.rows) > 0) =>
        /\ Calls("sentiment_pipeline") = 1
        /\ Increasing(filtered_reviews.index)
        /\ texts = [k \in DOMAIN filtered_reviews.rows |->
                       MasterRow(filtered_reviews.index[k])["text"]]
        /\ Len(results) = Len(filtered_reviews.rows)
        /\ \A k \in DOMAIN filtered_reviews.rows :
              /\ results[k] = resource_cache[filtered_reviews.rows[k]["text"]]
              /\ filtered_reviews.rows[k]["sentiment"] = results[k].label
              /\ filtered_reviews.rows[k]["score_val"] = results[k].score
              /\ filtered_reviews.rows[k]["confidence"] = Percent(results[k].score)

C9_Witness ==
    /\ pc = "metrics"
    /\ Len(results) >= 2
    /\ results[1].label # results[2].label
    /\ filtered_reviews.rows[1]["confidence"] = "95.67%"

SentimentCalls == {"load_sentiment_model", "pipeline", "sentiment_pipeline"}

\* C10: in every run the model is loaded, the classifier is called and the
\* styled table, the counters and the chart are shown only on the Reviews
\* page with a non-empty filter result, and only after the run's load_data
\* call and its filter; Products and Testimonials runs and Reviews runs with
\* an empty result do none of these.
C10_SentimentOnlyForReviews ==
    /\ ( \/ \E i \in DOMAIN log : log[i] \in SentimentCalls
         \/ Shows("styled_dataframe")
         \/ Shows("metric")
         \/ Shows("altair_chart") ) =>
            /\ page = "Reviews"
            /\ df # NoTable
            /\ filtered_reviews # NoTable
            /\ Len(filtered_reviews.rows) > 0
    /\ \A i \in DOMAIN log :
          log[i] \in SentimentCalls =>
              \E j, k \in DOMAIN log :
                  j < k /\ k < i /\ log[j] = "load_data" /\ log[k] = "filter"

C10_Witness ==
    /\ pc = "done"
    /\ page = "Reviews"
    /\ Calls("pipeline") = 1
    /\ Calls("sentiment_pipeline") = 1
    /\ Shows("altair_chart")

====
